---- MODULE Spec2Model ----
(***************************************************************************)
(* datadot: the lazy navigation chain of src/src/dd/dd.py.                 *)
(*                                                                         *)
(* Python values are tagged records, operations are tagged records, list   *)
(* objects held by navigators (the operation chain and the expansion       *)
(* levels) live in two heaps so that sharing between navigators is         *)
(* visible.  One action per accessor (__getattr__, __getitem__) and one    *)
(* for the invocation (__call__).                                          *)
(***************************************************************************)
EXTENDS Integers, Sequences, FiniteSets, TLC

VARIABLES
    navs,       \* the dd objects created so far, in creation order
    opLists,    \* heap of the list objects used as dd._operations
    lvlLists,   \* heap of the list objects used as dd._expansion_levels
    origin,     \* per dd object: the object and accessor it was derived by
    last        \* the latest invocation: the dd object, the converter, the outcome

vars == <<navs, opLists, lvlLists, origin, last>>

(***************************************************************************)
(* Bounds.                                                                 *)
(***************************************************************************)
MaxNavs == 4        \* dd objects in the branching specification
MaxChain == 4       \* accessor calls in the single-chain specification
MaxNested == 7      \* accessor calls in the nested-expansion specification
MaxSparse == 6      \* accessor calls in the sparse nested-expansion specification
MaxCyclic == 4      \* accessor calls in the cyclic-data specification

(***************************************************************************)
(* Python values.                                                          *)
(***************************************************************************)
None == [t |-> "none"]
PyInt(i) == [t |-> "int", i |-> i]
PyStr(cs) == [t |-> "str", chars |-> cs]
PyList(xs) == [t |-> "list", items |-> xs]
PyDict(ks, vs) == [t |-> "dict", keys |-> ks, vals |-> vs]

\* A reference to an object that is (also) reachable from itself: data with
\* cycles is a table of objects whose members may be references.
PyRef(id) == [t |-> "ref", id |-> id]

\* root: refers to itself through "p", holds two children and a matrix;
\* each child refers back to the root, the second also lists both children.
Objects == <<
    PyDict(<<"v", "p", "c", "m">>,
           <<PyInt(0), PyRef(1), PyList(<<PyRef(2), PyRef(3)>>),
             PyList(<<PyList(<<PyInt(1), PyInt(2)>>), PyList(<<PyInt(3)>>)>>)>>),
    PyDict(<<"v", "p">>, <<PyInt(1), PyRef(1)>>),
    PyDict(<<"p", "c">>, <<PyRef(1), PyList(<<PyRef(3), PyRef(2)>>)>>)
  >>

\* Reading a member gives the object itself.
Resolve(v) == IF v.t = "ref" THEN Objects[v.id] ELSE v

\* Keys of value[key]: an int or a str.
IntKey(i) == [t |-> "int", i |-> i]
StrKey(s) == [t |-> "str", s |-> s]

\* str(key) and repr(key), as used in messages and path segments.
KeyStr(key) == IF key.t = "int" THEN ToString(key.i) ELSE key.s
KeyRepr(key) == IF key.t = "int" THEN ToString(key.i) ELSE "'" \o key.s \o "'"

\* value[key]: the value found, or the exception class raised.
Found(v) == [exc |-> "none", val |-> v]
Throws(e) == [exc |-> e, val |-> None]

SeqIndex(n, i) == IF i >= 0 THEN i + 1 ELSE n + i + 1

Subscript(value, key) ==
    CASE value.t = "dict" ->
            IF key.t = "str" /\ \E i \in 1..Len(value.keys) : value.keys[i] = key.s
            THEN Found(Resolve(value.vals[CHOOSE i \in 1..Len(value.keys) : value.keys[i] = key.s]))
            ELSE Throws("KeyError")
      [] value.t = "list" ->
            IF key.t # "int" THEN Throws("TypeError")
            ELSE IF key.i >= -Len(value.items) /\ key.i < Len(value.items)
                 THEN Found(Resolve(value.items[SeqIndex(Len(value.items), key.i)]))
                 ELSE Throws("IndexError")
      [] value.t = "str" ->
            IF key.t # "int" THEN Throws("TypeError")
            ELSE IF key.i >= -Len(value.chars) /\ key.i < Len(value.chars)
                 THEN Found(PyStr(<<value.chars[SeqIndex(Len(value.chars), key.i)]>>))
                 ELSE Throws("IndexError")
      [] OTHER -> Throws("TypeError")

(***************************************************************************)
(* DDException(message, path, value) and normal returns.  An operation     *)
(* returns the value and the path list as it left it.                      *)
(***************************************************************************)
NoMsg == [text |-> "", name |-> "", cause |-> ""]
Msg(text, name, cause) == [text |-> text, name |-> name, cause |-> cause]

Return(v, path) == [ok |-> TRUE, val |-> v, path |-> path, msg |-> NoMsg]
DDException(message, path, value) ==
    [ok |-> FALSE, val |-> value, path |-> path, msg |-> message]

(***************************************************************************)
(* Operations.                                                             *)
(***************************************************************************)
AttributeOp(attr, null_safe) == [op |-> "attr", attr |-> attr, null_safe |-> null_safe]
ItemOp(key, null_safe) == [op |-> "item", key |-> key, null_safe |-> null_safe]
ExpandOp == [op |-> "expand"]
MapOp(operation, expansion_level) ==
    [op |-> "map", operation |-> operation, expansion_level |-> expansion_level]

\* Variant: a None value is answered with None whatever null_safe says.
AttributeApplyNoneTolerant(self, value, path) ==
    LET p == Append(path, self.attr)
        r == Subscript(value, StrKey(self.attr))
        m == Msg("Failed to get attribute", self.attr, r.exc)
    IN  IF value = None THEN Return(None, p)
        ELSE CASE r.exc = "none" -> Return(r.val, p)
               [] r.exc \in {"KeyError", "IndexError"} ->
                    IF self.null_safe THEN Return(None, p) ELSE DDException(m, p, value)
               [] OTHER -> DDException(m, p, value)

\* Variant: the segment goes on a copy of the path, the caller's list is left alone.
AttributeApplyCopiesPath(self, value, path) ==
    LET p == Append(path, self.attr)
        r == Subscript(value, StrKey(self.attr))
        m == Msg("Failed to get attribute", self.attr, r.exc)
    IN  IF value = None /\ self.null_safe THEN Return(None, path)
        ELSE CASE r.exc = "none" -> Return(r.val, path)
               [] r.exc \in {"KeyError", "IndexError"} ->
                    IF self.null_safe THEN Return(None, path) ELSE DDException(m, p, value)
               [] OTHER -> DDException(m, p, value)

\* Variant: null_safe answers a None value only, a missing key still raises.
AttributeApplyStrictKeys(self, value, path) ==
    LET p == Append(path, self.attr)
        r == Subscript(value, StrKey(self.attr))
        m == Msg("Failed to get attribute", self.attr, r.exc)
    IN  IF value = None /\ self.null_safe THEN Return(None, p)
        ELSE CASE r.exc = "none" -> Return(r.val, p)
               [] OTHER -> DDException(m, p, value)

AttributeApply(self, value, path) ==
    LET p == Append(path, self.attr)
        r == Subscript(value, StrKey(self.attr))
        m == Msg("Failed to get attribute", self.attr, r.exc)
    IN  IF value = None /\ self.null_safe THEN Return(None, p)
        ELSE CASE r.exc = "none" -> Return(r.val, p)
               [] r.exc = "KeyError" ->
                    IF self.null_safe THEN Return(None, p) ELSE DDException(m, p, value)
               [] r.exc = "IndexError" ->
                    IF self.null_safe THEN Return(None, p) ELSE DDException(m, p, value)
               [] OTHER -> DDException(m, p, value)

ItemApply(self, value, path) ==
    LET p == Append(path, "[" \o KeyRepr(self.key) \o "]")
        r == Subscript(value, self.key)
        m == Msg("Failed to get attribute", KeyStr(self.key), r.exc)
        g == Msg("Failed to get item with key", KeyStr(self.key), r.exc)
    IN  IF value = None /\ self.null_safe THEN Return(None, p)
        ELSE CASE r.exc = "none" -> Return(r.val, p)
               [] r.exc = "KeyError" ->
                    IF self.null_safe THEN Return(None, p) ELSE DDException(m, p, value)
               [] r.exc = "IndexError" ->
                    IF self.null_safe THEN Return(None, p) ELSE DDException(m, p, value)
               [] OTHER -> DDException(g, p, value)

\* Variant: a dict expands to its keys, as list(value) would give.
ExpandApplyKeys(value, path) ==
    LET p == Append(path, "[...]")
    IN  CASE value = None -> Return(PyList(<<>>), p)
          [] value.t = "dict" ->
                Return(PyList([i \in 1..Len(value.keys) |-> PyStr(<<value.keys[i]>>)]), p)
          [] value.t = "list" -> Return(PyList(value.items), p)
          [] OTHER -> DDException(Msg("Cannot expand non-iterable", "", ""), p, value)

ExpandApply(value, path) ==
    LET p == Append(path, "[...]")
    IN  CASE value = None -> Return(PyList(<<>>), p)
          [] value.t = "dict" -> Return(PyList(value.vals), p)
          [] value.t = "list" -> Return(PyList(value.items), p)
          [] OTHER -> DDException(Msg("Cannot expand non-iterable", "", ""), p, value)

\* The lowest index at which a per-element application raised, 0 if none.
FirstFailure(rs) ==
    IF \E i \in 1..Len(rs) : ~rs[i].ok
    THEN CHOOSE i \in 1..Len(rs) : ~rs[i].ok /\ \A j \in 1..(i - 1) : rs[j].ok
    ELSE 0

\* Variant: None results are left out of the list.
CollectSkipNone(rs, path) ==
    IF FirstFailure(rs) # 0 THEN rs[FirstFailure(rs)]
    ELSE Return(PyList(SelectSeq([i \in 1..Len(rs) |-> rs[i].val], LAMBDA v : v # None)),
                path)

\* Variant: the items are applied on the caller's path list, which keeps
\* what the last item's application appended.
CollectOnSharedPath(rs, path) ==
    IF FirstFailure(rs) # 0 THEN rs[FirstFailure(rs)]
    ELSE Return(PyList([i \in 1..Len(rs) |-> rs[i].val]),
                IF rs = <<>> THEN path ELSE rs[Len(rs)].path)

Collect(rs, path) ==
    IF FirstFailure(rs) # 0 THEN rs[FirstFailure(rs)]
    ELSE Return(PyList([i \in 1..Len(rs) |-> rs[i].val]), path)

IndexSeg(i) == "[" \o ToString(i) \o "]"

RECURSIVE Apply(_, _, _)
RECURSIVE MapApply(_, _, _)

\* Variant: the result of the one application to a non-list value is not wrapped.
MapApplyUnwrapped(self, value, path) ==
    IF value = None THEN Return(PyList(<<>>), path)
    ELSE IF value.t # "list"
    THEN Apply(self.operation, value, path)
    ELSE LET Inner(item, item_path) ==
                 Collect([j \in 1..Len(item.items) |->
                            MapApply(MapOp(self.operation.operation, self.expansion_level - 1),
                                     Resolve(item.items[j]),
                                     Append(item_path, IndexSeg(j - 1)))],
                         item_path)
             PerItem(i) ==
                 LET item == Resolve(value.items[i])
                     item_path == Append(path, IndexSeg(i - 1))
                 IN  IF self.operation.op = "map"
                     THEN IF item.t = "list" /\ self.expansion_level > 1
                          THEN Inner(item, item_path)
                          ELSE Apply(self.operation, item, item_path)
                     ELSE Apply(self.operation, item, item_path)
         IN  Collect([i \in 1..Len(value.items) |-> PerItem(i)], path)

\* Variant: None is treated as any other non-list value, one application wrapped.
MapApplyNoneOnce(self, value, path) ==
    IF value = None \/ value.t # "list"
    THEN LET r == Apply(self.operation, value, path)
         IN  IF r.ok THEN Return(PyList(<<r.val>>), r.path) ELSE r
    ELSE LET Inner(item, item_path) ==
                 Collect([j \in 1..Len(item.items) |->
                            MapApply(MapOp(self.operation.operation, self.expansion_level - 1),
                                     Resolve(item.items[j]),
                                     Append(item_path, IndexSeg(j - 1)))],
                         item_path)
             PerItem(i) ==
                 LET item == Resolve(value.items[i])
                     item_path == Append(path, IndexSeg(i - 1))
                 IN  IF self.operation.op = "map"
                     THEN IF item.t = "list" /\ self.expansion_level > 1
                          THEN Inner(item, item_path)
                          ELSE Apply(self.operation, item, item_path)
                     ELSE Apply(self.operation, item, item_path)
         IN  Collect([i \in 1..Len(value.items) |-> PerItem(i)], path)

MapApply(self, value, path) ==
    IF value = None THEN Return(PyList(<<>>), path)
    ELSE IF value.t # "list"
    THEN LET r == Apply(self.operation, value, path)
         IN  IF r.ok THEN Return(PyList(<<r.val>>), r.path) ELSE r
    ELSE LET Inner(item, item_path) ==
                 Collect([j \in 1..Len(item.items) |->
                            MapApply(MapOp(self.operation.operation, self.expansion_level - 1),
                                     Resolve(item.items[j]),
                                     Append(item_path, IndexSeg(j - 1)))],
                         item_path)
             PerItem(i) ==
                 LET item == Resolve(value.items[i])
                     item_path == Append(path, IndexSeg(i - 1))
                 IN  IF self.operation.op = "map"
                     THEN IF item.t = "list" /\ self.expansion_level > 1
                          THEN Inner(item, item_path)
                          ELSE Apply(self.operation, item, item_path)
                     ELSE Apply(self.operation, item, item_path)
         IN  Collect([i \in 1..Len(value.items) |-> PerItem(i)], path)

Apply(op, value, path) ==
    CASE op.op = "attr" -> AttributeApply(op, value, path)
      [] op.op = "item" -> ItemApply(op, value, path)
      [] op.op = "expand" -> ExpandApply(value, path)
      [] op.op = "map" -> MapApply(op, value, path)

(***************************************************************************)
(* The depth of the recursion of _DDMapOperation.apply: the largest number *)
(* of its frames open at once while op is applied to value.                *)
(***************************************************************************)
MaxOf(S) == IF S = {} THEN 0 ELSE CHOOSE x \in S : \A y \in S : y <= x

\* Variant: a list found among the items is itself mapped over, whatever
\* the operation wrapped.
RECURSIVE MapNestingIntoLists(_, _)
MapNestingIntoLists(self, value) ==
    IF self.op # "map" THEN 0
    ELSE IF value = None THEN 1
    ELSE IF value.t # "list" THEN 1 + MapNestingIntoLists(self.operation, value)
    ELSE 1 + MaxOf({IF Resolve(value.items[i]).t = "list"
                    THEN MapNestingIntoLists(self, Resolve(value.items[i]))
                    ELSE MapNestingIntoLists(self.operation, Resolve(value.items[i])) :
                    i \in 1..Len(value.items)})

RECURSIVE MapNesting(_, _)
MapNesting(self, value) ==
    IF self.op # "map" THEN 0
    ELSE IF value = None THEN 1
    ELSE IF value.t # "list" THEN 1 + MapNesting(self.operation, value)
    ELSE LET Inner(item) ==
                 MaxOf({MapNesting(MapOp(self.operation.operation, self.expansion_level - 1),
                                   Resolve(item.items[j])) : j \in 1..Len(item.items)})
             PerItem(i) ==
                 LET item == Resolve(value.items[i])
                 IN  IF self.operation.op = "map"
                     THEN IF item.t = "list" /\ self.expansion_level > 1
                          THEN Inner(item)
                          ELSE MapNesting(self.operation, item)
                     ELSE MapNesting(self.operation, item)
         IN  1 + MaxOf({PerItem(i) : i \in 1..Len(value.items)})

(***************************************************************************)
(* Whether applying op to value enters the branch of _DDMapOperation.apply *)
(* that rebuilds a Map one level lower for the items of an inner list.     *)
(***************************************************************************)
RECURSIVE TakesLevelBranch(_, _)
TakesLevelBranch(self, value) ==
    IF self.op # "map" THEN FALSE
    ELSE IF value = None THEN FALSE
    ELSE IF value.t # "list" THEN TakesLevelBranch(self.operation, value)
    ELSE \E i \in 1..Len(value.items) :
             LET item == Resolve(value.items[i])
             IN  IF self.operation.op = "map"
                 THEN IF item.t = "list" /\ self.expansion_level > 1
                      THEN TRUE
                      ELSE TakesLevelBranch(self.operation, item)
                 ELSE TakesLevelBranch(self.operation, item)

(***************************************************************************)
(* Converters passed to the invocation; NoConvert is convert=None.         *)
(***************************************************************************)
NoConvert == "None"
Converters == {"len", "wrap", "div0"}

\* convert(result): the value returned, or raised = TRUE.
Convert(convert, result) ==
    CASE convert = "len" ->
            CASE result.t = "list" -> [raised |-> FALSE, val |-> PyInt(Len(result.items))]
              [] result.t = "dict" -> [raised |-> FALSE, val |-> PyInt(Len(result.keys))]
              [] result.t = "str" -> [raised |-> FALSE, val |-> PyInt(Len(result.chars))]
              [] OTHER -> [raised |-> TRUE, val |-> None]
      [] convert = "wrap" -> [raised |-> FALSE, val |-> PyList(<<result>>)]
      [] convert = "div0" -> [raised |-> TRUE, val |-> None]

(***************************************************************************)
(* dd.__call__ on the fields of a dd object.                               *)
(***************************************************************************)
\* Variant: the loop never stops early on a None result.
RECURSIVE RunLoopNoBreak(_, _, _, _, _)
RunLoopNoBreak(operations, null_safe, i, result, path) ==
    IF i > Len(operations) THEN Return(result, path)
    ELSE LET r == Apply(operations[i], result, path)
         IN  IF r.ok THEN RunLoopNoBreak(operations, null_safe, i + 1, r.val, r.path)
             ELSE r

\* Variant: under null_safe every failing step is answered with None.
RECURSIVE RunLoopQuiet(_, _, _, _, _)
RunLoopQuiet(operations, null_safe, i, result, path) ==
    IF i > Len(operations) THEN Return(result, path)
    ELSE IF result = None /\ null_safe THEN Return(None, path)
    ELSE LET r == Apply(operations[i], result, path)
         IN  IF r.ok THEN RunLoopQuiet(operations, null_safe, i + 1, r.val, r.path)
             ELSE IF null_safe THEN Return(None, r.path)
             ELSE r

RECURSIVE RunLoop(_, _, _, _, _)
RunLoop(operations, null_safe, i, result, path) ==
    IF i > Len(operations) THEN Return(result, path)
    ELSE IF result = None /\ null_safe THEN Return(None, path)
    ELSE LET r == Apply(operations[i], result, path)
         IN  IF r.ok THEN RunLoop(operations, null_safe, i + 1, r.val, r.path)
             ELSE r

\* Variant: under null_safe a failing converter is answered with None.
InvokeQuietConvert(value, operations, null_safe, convert) ==
    LET r == RunLoop(operations, null_safe, 1, value, <<"dd">>)
    IN  IF ~r.ok THEN r
        ELSE IF convert # NoConvert
        THEN LET c == Convert(convert, r.val)
             IN  IF c.raised
                 THEN IF null_safe THEN Return(None, r.path)
                      ELSE DDException(Msg("Conversion error", "", ""), r.path, r.val)
                 ELSE Return(c.val, r.path)
        ELSE r

\* Variant: an invocation with nothing to apply answers None under null_safe.
InvokeEmptyIsNone(value, operations, null_safe, convert) ==
    LET r == IF operations = <<>> /\ null_safe
             THEN Return(None, <<"dd">>)
             ELSE RunLoop(operations, null_safe, 1, value, <<"dd">>)
    IN  IF ~r.ok THEN r
        ELSE IF convert # NoConvert
        THEN LET c == Convert(convert, r.val)
             IN  IF c.raised
                 THEN DDException(Msg("Conversion error", "", ""), r.path, r.val)
                 ELSE Return(c.val, r.path)
        ELSE r

Invoke(value, operations, null_safe, convert) ==
    LET r == RunLoop(operations, null_safe, 1, value, <<"dd">>)
    IN  IF ~r.ok THEN r
        ELSE IF convert # NoConvert
        THEN LET c == Convert(convert, r.val)
             IN  IF c.raised
                 THEN DDException(Msg("Conversion error", "", ""), r.path, r.val)
                 ELSE Return(c.val, r.path)
        ELSE r

(***************************************************************************)
(* List objects.  An argument of dd(...) is an existing list object or a   *)
(* list just built by an expression.                                       *)
(***************************************************************************)
Ref(r) == [isRef |-> TRUE, ref |-> r, content |-> <<>>]
Fresh(c) == [isRef |-> FALSE, ref |-> 0, content |-> c]

\* Variant: x is appended to the list object itself.
ConcatInPlace(heap, r, x) ==
    [heap |-> [heap EXCEPT ![r] = Append(@, x)], arg |-> Ref(r)]

\* self._operations + [x]: a new list, the left operand untouched.
Concat(heap, r, x) == [heap |-> heap, arg |-> Fresh(Append(heap[r], x))]

\* `arg or []` in dd.__init__: an empty or missing list is replaced by a new one.
OrEmpty(heap, arg) ==
    LET content == IF arg.isRef THEN heap[arg.ref] ELSE arg.content
    IN  IF arg.isRef /\ content # <<>>
        THEN [heap |-> heap, ref |-> arg.ref]
        ELSE [heap |-> Append(heap, content), ref |-> Len(heap) + 1]

\* dd.__init__(value, operations, null_safe, expansion_levels), run on the heaps
\* ops and lvls as the accessor left them.
DDInit(value, ops, operations, null_safe, lvls, expansion_levels, from, by, arg) ==
    LET o == OrEmpty(ops, operations)
        l == OrEmpty(lvls, expansion_levels)
    IN  /\ navs' = Append(navs, [value |-> value, operations |-> o.ref,
                                 null_safe |-> null_safe, expansion_levels |-> l.ref])
        /\ opLists' = o.heap
        /\ lvlLists' = l.heap
        /\ origin' = Append(origin, [from |-> from, by |-> by, arg |-> arg])
        /\ UNCHANGED last

\* The fields of dd object n as its methods read them.
Operations(n) == opLists[navs[n].operations]
ExpansionLevels(n) == lvlLists[navs[n].expansion_levels]

\* for level in reversed(self._expansion_levels): op = _DDMapOperation(op, level)
RECURSIVE WrapIn(_, _, _)
WrapIn(op, levels, k) ==
    IF k = 0 THEN op ELSE WrapIn(MapOp(op, levels[k]), levels, k - 1)

\* Variant: one Map whatever the number of open expansions.
WrapOnce(op, levels) ==
    IF levels = <<>> THEN op ELSE MapOp(op, levels[Len(levels)])

Wrap(op, levels) == WrapIn(op, levels, Len(levels))

(***************************************************************************)
(* Accessors.                                                              *)
(***************************************************************************)
Marker == "_"

\* Variant: the new dd object is built without the receiver's null_safe.
AppendOperationDropsFlag(n, base_op, by, arg) ==
    IF ExpansionLevels(n) # <<>>
    THEN LET c == Concat(opLists, navs[n].operations, Wrap(base_op, ExpansionLevels(n)))
         IN  DDInit(navs[n].value, c.heap, c.arg, FALSE,
                    lvlLists, Ref(navs[n].expansion_levels), n, by, arg)
    ELSE LET c == Concat(opLists, navs[n].operations, base_op)
         IN  DDInit(navs[n].value, c.heap, c.arg, FALSE,
                    lvlLists, Fresh(<<>>), n, by, arg)

\* Variant: a lookup accessor hands no expansion level on to the new dd object.
AppendOperationClosesLevels(n, base_op, by, arg) ==
    IF ExpansionLevels(n) # <<>>
    THEN LET c == Concat(opLists, navs[n].operations, Wrap(base_op, ExpansionLevels(n)))
         IN  DDInit(navs[n].value, c.heap, c.arg, navs[n].null_safe,
                    lvlLists, Fresh(<<>>), n, by, arg)
    ELSE LET c == Concat(opLists, navs[n].operations, base_op)
         IN  DDInit(navs[n].value, c.heap, c.arg, navs[n].null_safe,
                    lvlLists, Fresh(<<>>), n, by, arg)

\* Variant: the accessor applies the extended chain to the data, and returns
\* the new dd object only when that raises nothing.
AppendOperationEager(n, base_op, by, arg) ==
    /\ Invoke(navs[n].value,
              Append(Operations(n), Wrap(base_op, ExpansionLevels(n))),
              navs[n].null_safe, NoConvert).ok
    /\ IF ExpansionLevels(n) # <<>>
       THEN LET c == Concat(opLists, navs[n].operations, Wrap(base_op, ExpansionLevels(n)))
            IN  DDInit(navs[n].value, c.heap, c.arg, navs[n].null_safe,
                       lvlLists, Ref(navs[n].expansion_levels), n, by, arg)
       ELSE LET c == Concat(opLists, navs[n].operations, base_op)
            IN  DDInit(navs[n].value, c.heap, c.arg, navs[n].null_safe,
                       lvlLists, Fresh(<<>>), n, by, arg)

\* The branch shared by __getattr__ and __getitem__ after the operation is built.
AppendOperation(n, base_op, by, arg) ==
    IF ExpansionLevels(n) # <<>>
    THEN LET c == Concat(opLists, navs[n].operations, Wrap(base_op, ExpansionLevels(n)))
         IN  DDInit(navs[n].value, c.heap, c.arg, navs[n].null_safe,
                    lvlLists, Ref(navs[n].expansion_levels), n, by, arg)
    ELSE LET c == Concat(opLists, navs[n].operations, base_op)
         IN  DDInit(navs[n].value, c.heap, c.arg, navs[n].null_safe,
                    lvlLists, Fresh(<<>>), n, by, arg)

\* Variant: the marker also sets null_safe in the operations already recorded.
RECURSIVE MadeSafe(_)
MadeSafe(op) ==
    CASE op.op = "attr" -> AttributeOp(op.attr, TRUE)
      [] op.op = "item" -> ItemOp(op.key, TRUE)
      [] op.op = "map" -> MapOp(MadeSafe(op.operation), op.expansion_level)
      [] OTHER -> op

GetAttrMarkerReachesBack(n, attr) ==
    IF attr = Marker
    THEN DDInit(navs[n].value, opLists,
                Fresh([j \in 1..Len(Operations(n)) |-> MadeSafe(Operations(n)[j])]), TRUE,
                lvlLists, Ref(navs[n].expansion_levels), n, "marker", Marker)
    ELSE AppendOperation(n, AttributeOp(attr, navs[n].null_safe), "attr", attr)

GetAttr(n, attr) ==
    IF attr = Marker
    THEN DDInit(navs[n].value, opLists, Ref(navs[n].operations), TRUE,
                lvlLists, Ref(navs[n].expansion_levels), n, "marker", Marker)
    ELSE AppendOperation(n, AttributeOp(attr, navs[n].null_safe), "attr", attr)

GetItem(n, key) ==
    AppendOperation(n, ItemOp(key, navs[n].null_safe), "item", KeyRepr(key))

\* Variant: the expand accessor records level 2.
GetExpandLevelTwo(n) ==
    LET c == Concat(opLists, navs[n].operations, ExpandOp)
        l == Concat(lvlLists, navs[n].expansion_levels, 2)
    IN  DDInit(navs[n].value, c.heap, c.arg, navs[n].null_safe,
               l.heap, l.arg, n, "expand", "...")

\* Variant: an expand step after an open expansion is broadcast as a lookup is.
GetExpandBroadcast(n) ==
    LET c == Concat(opLists, navs[n].operations, Wrap(ExpandOp, ExpansionLevels(n)))
        l == Concat(lvlLists, navs[n].expansion_levels, 1)
    IN  DDInit(navs[n].value, c.heap, c.arg, navs[n].null_safe,
               l.heap, l.arg, n, "expand", "...")

\* __getitem__(Ellipsis)
GetExpand(n) ==
    LET c == Concat(opLists, navs[n].operations, ExpandOp)
        l == Concat(lvlLists, navs[n].expansion_levels, 1)
    IN  DDInit(navs[n].value, c.heap, c.arg, navs[n].null_safe,
               l.heap, l.arg, n, "expand", "...")

NoCall == [nav |-> 0, convert |-> NoConvert, out |-> Return(None, <<>>)]

\* Variant: the invocation uses up the chain it walks.
CallConsumes(n, convert) ==
    /\ last' = [nav |-> n, convert |-> convert,
                out |-> Invoke(navs[n].value, Operations(n), navs[n].null_safe, convert)]
    /\ opLists' = [opLists EXCEPT ![navs[n].operations] = <<>>]
    /\ UNCHANGED <<navs, lvlLists, origin>>

Call(n, convert) ==
    /\ last' = [nav |-> n, convert |-> convert,
                out |-> Invoke(navs[n].value, Operations(n), navs[n].null_safe, convert)]
    /\ UNCHANGED <<navs, opLists, lvlLists, origin>>

(***************************************************************************)
(* Subjects and accessor arguments explored.                               *)
(***************************************************************************)
AttrNames == {"a", "b"}
ItemKeys == {IntKey(0), IntKey(1), StrKey("a")}

Subjects == {
    None,
    PyInt(7),
    PyStr(<<"x", "y">>),
    PyDict(<<"a", "b">>, <<PyDict(<<"a">>, <<PyInt(1)>>), None>>),
    PyDict(<<"b", "a">>, <<PyInt(2), PyList(<<PyDict(<<"a">>, <<PyInt(1)>>), PyDict(<<"b">>, <<PyInt(3)>>)>>)>>),
    PyList(<<PyDict(<<"a">>, <<PyInt(1)>>), None>>),
    PyList(<<PyList(<<PyInt(1), PyInt(2)>>), PyList(<<PyInt(3), PyInt(4)>>)>>),
    PyList(<<PyDict(<<"a">>, <<None>>), PyDict(<<"a">>, <<PyList(<<PyInt(5)>>)>>)>>)
  }

TreeSubjects == {
    None,
    PyDict(<<"a", "b">>, <<PyDict(<<"a">>, <<PyInt(1)>>), None>>),
    PyList(<<PyDict(<<"a">>, <<PyInt(1)>>), None>>),
    PyList(<<PyList(<<PyInt(1), PyInt(2)>>), PyList(<<PyInt(3), PyInt(4)>>)>>)
  }

\* dd(value): the root object, with the empty lists __init__ makes for it.
Root(S) ==
    /\ \E value \in S :
          navs = <<[value |-> value, operations |-> 1, null_safe |-> FALSE,
                    expansion_levels |-> 1]>>
    /\ opLists = << <<>> >>
    /\ lvlLists = << <<>> >>
    /\ origin = <<[from |-> 0, by |-> "root", arg |-> ""]>>
    /\ last = NoCall

Init == Root(TreeSubjects)

(***************************************************************************)
(* Any dd object may be extended or invoked at any time.                   *)
(***************************************************************************)
TreeAttrs == {"a"}
TreeKeys == {IntKey(0)}
TreeConverters == {"len"}

TreeGetAttr == \E n \in 1..Len(navs), a \in TreeAttrs \cup {Marker} :
                   Len(navs) < MaxNavs /\ GetAttr(n, a)
TreeGetItem == \E n \in 1..Len(navs), k \in TreeKeys :
                   Len(navs) < MaxNavs /\ GetItem(n, k)
TreeGetExpand == \E n \in 1..Len(navs) : Len(navs) < MaxNavs /\ GetExpand(n)
TreeCall == \E n \in 1..Len(navs), c \in TreeConverters \cup {NoConvert} : Call(n, c)

Next == TreeGetAttr \/ TreeGetItem \/ TreeGetExpand \/ TreeCall

Spec == Init /\ [][Next]_vars

(***************************************************************************)
(* One chain: every accessor is called on the newest dd object, and the    *)
(* chain is invoked once it is built.                                      *)
(***************************************************************************)
Newest == Len(navs)
Building == last.nav = 0

ChainGetAttr == \E a \in AttrNames \cup {Marker} :
                    Building /\ Len(navs) <= MaxChain /\ GetAttr(Newest, a)
ChainGetItem == \E k \in ItemKeys :
                    Building /\ Len(navs) <= MaxChain /\ GetItem(Newest, k)
ChainGetExpand == Building /\ Len(navs) <= MaxChain /\ GetExpand(Newest)
ChainCall == \E c \in Converters \cup {NoConvert} : Call(Newest, c)

NextChain == ChainGetAttr \/ ChainGetItem \/ ChainGetExpand \/ ChainCall

InitChain == Root(Subjects)

SpecChain == InitChain /\ [][NextChain]_vars

(***************************************************************************)
(* Nested expansions: one chain over trees of "c" collections with "v"     *)
(* leaves.                                                                 *)
(***************************************************************************)
Leaf(i) == PyDict(<<"v">>, <<PyInt(i)>>)
Node(children) == PyDict(<<"c">>, <<PyList(children)>>)

NestedSubjects == {
    Node(<<Node(<<Leaf(1), Leaf(2)>>), Node(<<>>), Node(<<Leaf(3)>>)>>),
    Node(<<Node(<<Node(<<Leaf(1), Leaf(2)>>), Node(<<Leaf(3)>>)>>),
           Node(<<Node(<<>>), Node(<<Leaf(4), Leaf(5), Leaf(6)>>)>>)>>),
    Node(<<Node(<<Leaf(1)>>), Leaf(2)>>)
  }
NestedAttrs == {"c", "v"}

NestedGetAttr == \E a \in NestedAttrs :
                     Building /\ Len(navs) <= MaxNested /\ GetAttr(Newest, a)
NestedGetExpand == Building /\ Len(navs) <= MaxNested /\ GetExpand(Newest)
NestedCall == \E c \in {NoConvert, "len"} : Call(Newest, c)

NextNested == NestedGetAttr \/ NestedGetExpand \/ NestedCall

InitNested == Root(NestedSubjects)

SpecNested == InitNested /\ [][NextNested]_vars

(***************************************************************************)
(* Sparse nested expansions: one chain, the marker included, over "c"      *)
(* collections some of which are None or missing.                          *)
(***************************************************************************)
Hollow == PyDict(<<"c">>, <<None>>)

SparseSubjects == {
    Node(<<Hollow, Node(<<Leaf(30), Leaf(15)>>)>>),
    Node(<<Node(<<Leaf(1), Hollow>>), Leaf(2), None, Node(<<>>)>>),
    Node(<<Node(<<Leaf(1), PyInt(7)>>), Hollow>>)
  }

SparseGetAttr == \E a \in NestedAttrs \cup {Marker} :
                     Building /\ Len(navs) <= MaxSparse /\ GetAttr(Newest, a)
SparseGetExpand == Building /\ Len(navs) <= MaxSparse /\ GetExpand(Newest)
SparseCall == \E c \in {NoConvert, "len"} : Call(Newest, c)

NextSparse == SparseGetAttr \/ SparseGetExpand \/ SparseCall

InitSparse == Root(SparseSubjects)

SpecSparse == InitSparse /\ [][NextSparse]_vars

(***************************************************************************)
(* Data with cycles: one chain over the root of the object table.          *)
(***************************************************************************)
CyclicSubjects == {Resolve(PyRef(1))}
CyclicAttrs == {"v", "p", "c", "m"}

CyclicGetAttr == \E a \in CyclicAttrs \cup {Marker} :
                     Building /\ Len(navs) <= MaxCyclic /\ GetAttr(Newest, a)
CyclicGetItem == \E k \in TreeKeys :
                     Building /\ Len(navs) <= MaxCyclic /\ GetItem(Newest, k)
CyclicGetExpand == Building /\ Len(navs) <= MaxCyclic /\ GetExpand(Newest)
CyclicCall == \E c \in {NoConvert, "len"} : Call(Newest, c)

NextCyclic == CyclicGetAttr \/ CyclicGetItem \/ CyclicGetExpand \/ CyclicCall

InitCyclic == Root(CyclicSubjects)

SpecCyclic == InitCyclic /\ [][NextCyclic]_vars

(***************************************************************************)
(* Vocabulary of the properties.                                           *)
(***************************************************************************)
\* The dd objects n was derived through, root first, n last.
RECURSIVE Lineage(_)
Lineage(n) ==
    IF origin[n].from = 0 THEN <<n>> ELSE Append(Lineage(origin[n].from), n)

\* No null-safe marker was used to build n.
NoMarker(n) == \A i \in 1..Len(Lineage(n)) : origin[Lineage(n)[i]].by # "marker"

\* The marker was applied on the way to n before step k was appended.
MarkerBefore(n, k) ==
    \E i \in 1..Len(Lineage(n)) :
        /\ origin[Lineage(n)[i]].by = "marker"
        /\ Len(Operations(Lineage(n)[i])) < k

IsLookup(op) == op.op \in {"attr", "item"}
KeyOf(op) == IF op.op = "attr" THEN StrKey(op.attr) ELSE op.key

\* The value the chain stands at after its first j steps: each step applied
\* to what the previous one returned.
RECURSIVE Reached(_, _, _)
Reached(value, ops, j) ==
    IF j = 0 THEN Return(value, <<>>)
    ELSE LET r == Reached(value, ops, j - 1)
         IN  IF r.ok THEN Apply(ops[j], r.val, <<>>) ELSE r

Invoked == last.nav # 0
LastOps == Operations(last.nav)
LastValue == navs[last.nav].value
ReachedNone(j) == Reached(LastValue, LastOps, j).ok /\ Reached(LastValue, LastOps, j).val = None

(***************************************************************************)
(* C1 as stated: without the null-safe marker, a None value with a step    *)
(* still to be applied to it makes the invocation raise.                   *)
(***************************************************************************)
C1_NoneThenAnyStepRaises ==
    (Invoked /\ NoMarker(last.nav)) =>
        \A j \in 1..(Len(LastOps) - 1) : ReachedNone(j) => ~last.out.ok

(***************************************************************************)
(* C1 amended: without the null-safe marker, a None value followed by an   *)
(* attribute or item step makes the invocation raise, with that step's     *)
(* error on the value None; followed by an expand step it becomes the      *)
(* empty list, and the invocation without converter returns [].            *)
(***************************************************************************)
C1_NoneThenLookupRaises ==
    (Invoked /\ NoMarker(last.nav)) =>
        \A j \in 0..(Len(LastOps) - 1) :
            ReachedNone(j) =>
                /\ IsLookup(LastOps[j + 1]) =>
                      /\ ~last.out.ok
                      /\ last.out.val = None
                      /\ last.out.msg.name = KeyStr(KeyOf(LastOps[j + 1]))
                      /\ last.out.msg.cause = "TypeError"
                /\ (LastOps[j + 1].op = "expand" /\ last.convert = NoConvert) =>
                      /\ last.out.ok
                      /\ last.out.val = PyList(<<>>)

C1_Witness ==
    /\ Invoked /\ NoMarker(last.nav)
    /\ \E j \in 1..(Len(LastOps) - 1) : ReachedNone(j) /\ IsLookup(LastOps[j + 1])
    /\ ~last.out.ok

(***************************************************************************)
(* C2: when the marker was applied before a top-level step whose input is  *)
(* None, or that looks up a missing key or an out-of-range index, the      *)
(* invocation without converter returns None, whatever steps follow.       *)
(***************************************************************************)
NotFound(op, value) ==
    IsLookup(op) /\ Subscript(value, KeyOf(op)).exc \in {"KeyError", "IndexError"}

NullPoint(k) ==
    /\ MarkerBefore(last.nav, k)
    /\ Reached(LastValue, LastOps, k - 1).ok
    /\ \/ Reached(LastValue, LastOps, k - 1).val = None
       \/ NotFound(LastOps[k], Reached(LastValue, LastOps, k - 1).val)

C2_NullSafeReturnsNone ==
    (Invoked /\ last.convert = NoConvert) =>
        \A k \in 1..Len(LastOps) :
            NullPoint(k) => (last.out.ok /\ last.out.val = None)

C2_Witness ==
    /\ Invoked /\ last.convert = NoConvert
    /\ \E k \in 1..(Len(LastOps) - 1) :
          NullPoint(k) /\ LastOps[k + 1].op = "expand"
    /\ last.out.ok /\ last.out.val = None

(***************************************************************************)
(* C3 as stated: without null-safety, a lookup broadcast over a sequence   *)
(* never makes the invocation raise; an element whose lookup fails gives   *)
(* None at its position, every other element its looked-up value.          *)
(***************************************************************************)
\* The chain is lookups, then one expand, then one broadcast lookup.
LookupsUpTo(ops, k) == \A j \in 1..k : IsLookup(ops[j])

ExpandThenLookup(ops) ==
    /\ Len(ops) >= 2
    /\ ops[Len(ops)].op = "map"
    /\ IsLookup(ops[Len(ops)].operation)
    /\ ops[Len(ops) - 1].op = "expand"
    /\ LookupsUpTo(ops, Len(ops) - 2)

\* The sequence the expand step is applied to, when there is one.
BroadcastOver(value, ops) == Reached(value, ops, Len(ops) - 2)

OverSequence(value, ops) ==
    /\ ExpandThenLookup(ops)
    /\ BroadcastOver(value, ops).ok
    /\ BroadcastOver(value, ops).val.t = "list"

\* The broadcast lookup applied to element i alone.
Each(value, ops, i) ==
    Apply(ops[Len(ops)].operation, BroadcastOver(value, ops).val.items[i], <<>>)

Elements(value, ops) == 1..Len(BroadcastOver(value, ops).val.items)

C3_ElementFailureGivesNone ==
    (Invoked /\ NoMarker(last.nav) /\ last.convert = NoConvert
             /\ OverSequence(LastValue, LastOps)) =>
        /\ last.out.ok
        /\ last.out.val =
              PyList([i \in Elements(LastValue, LastOps) |->
                        IF Each(LastValue, LastOps, i).ok
                        THEN Each(LastValue, LastOps, i).val
                        ELSE None])

(***************************************************************************)
(* C4: a dd object derived from one whose null_safe flag is set has the    *)
(* flag set, every attribute or item operation appended after that point   *)
(* carries null_safe = TRUE, and the marker sets the flag.                 *)
(***************************************************************************)
RECURSIVE Base(_)
Base(op) == IF op.op = "map" THEN Base(op.operation) ELSE op

C4_NullSafeSticky ==
    \A m \in 1..Len(navs) :
        /\ origin[m].by = "marker" => navs[m].null_safe
        /\ \A i \in 1..Len(Lineage(m)) :
              navs[Lineage(m)[i]].null_safe =>
                  /\ navs[m].null_safe
                  /\ \A j \in (Len(Operations(Lineage(m)[i])) + 1)..Len(Operations(m)) :
                        IsLookup(Base(Operations(m)[j])) =>
                            Base(Operations(m)[j]).null_safe

C4_Witness ==
    \E m \in 1..Len(navs) :
        /\ origin[m].by \in {"attr", "item"}
        /\ origin[origin[m].from].by = "expand"
        /\ origin[origin[origin[m].from].from].by = "marker"
        /\ navs[m].null_safe
        /\ Base(Operations(m)[Len(Operations(m))]).null_safe

(***************************************************************************)
(* C5: over a sequence of n elements, expand followed by one lookup        *)
(* returns the n per-element lookups in order (and returns exactly when    *)
(* each of them does); expand alone returns the n elements unchanged.      *)
(***************************************************************************)
ExpandAlone(value, ops) ==
    /\ Len(ops) >= 1
    /\ ops[Len(ops)].op = "expand"
    /\ LookupsUpTo(ops, Len(ops) - 1)
    /\ Reached(value, ops, Len(ops) - 1).ok
    /\ Reached(value, ops, Len(ops) - 1).val.t = "list"

C5_ExpandKeepsShape ==
    (Invoked /\ last.convert = NoConvert) =>
        /\ ExpandAlone(LastValue, LastOps) =>
              /\ last.out.ok
              /\ last.out.val = Reached(LastValue, LastOps, Len(LastOps) - 1).val
        /\ OverSequence(LastValue, LastOps) =>
              /\ last.out.ok <=>
                    \A i \in Elements(LastValue, LastOps) : Each(LastValue, LastOps, i).ok
              /\ last.out.ok =>
                    /\ Len(last.out.val.items) = Len(BroadcastOver(LastValue, LastOps).val.items)
                    /\ \A i \in Elements(LastValue, LastOps) :
                          last.out.val.items[i] = Each(LastValue, LastOps, i).val

C5_Witness ==
    /\ Invoked /\ last.convert = NoConvert
    /\ OverSequence(LastValue, LastOps)
    /\ last.out.ok
    /\ Len(last.out.val.items) = 2
    /\ last.out.val.items[1] # last.out.val.items[2]
    /\ last.out.val.items[1] = Each(LastValue, LastOps, 1).val

(***************************************************************************)
(* C6: a chain of k = 2 or k = 3 expand steps, each after a lookup that    *)
(* yields a sequence, and a final lookup, returns the k-deep nested list   *)
(* of the leaves: same lengths at every level and position as the          *)
(* collections of the data, every leaf at its place.                       *)
(***************************************************************************)
\* The arguments of the accessor calls that built n, in order.
ChainArgs(n) == [i \in 1..(Len(Lineage(n)) - 1) |-> origin[Lineage(n)[i + 1]].arg]

RECURSIVE NestedChain(_)
NestedChain(k) == IF k = 0 THEN <<"v">> ELSE <<"c", "...">> \o NestedChain(k - 1)

Get(value, name) == Subscript(value, StrKey(name))

\* Read straight off the data: k levels of "c" sequences over "v" leaves.
RECURSIVE WellFormed(_, _)
WellFormed(d, k) ==
    IF k = 0 THEN Get(d, "v").exc = "none"
    ELSE /\ Get(d, "c").exc = "none"
         /\ Get(d, "c").val.t = "list"
         /\ \A i \in 1..Len(Get(d, "c").val.items) :
               WellFormed(Get(d, "c").val.items[i], k - 1)

RECURSIVE Leaves(_, _)
Leaves(d, k) ==
    IF k = 0 THEN Get(d, "v").val
    ELSE PyList([i \in 1..Len(Get(d, "c").val.items) |->
                   Leaves(Get(d, "c").val.items[i], k - 1)])

C6_NestedExpansionShape ==
    \A k \in {2, 3} :
        (Invoked /\ last.convert = NoConvert
                 /\ ChainArgs(last.nav) = NestedChain(k)
                 /\ WellFormed(LastValue, k)) =>
            /\ last.out.ok
            /\ last.out.val = Leaves(LastValue, k)

C6_Witness ==
    /\ Invoked /\ last.convert = NoConvert
    /\ ChainArgs(last.nav) = NestedChain(3)
    /\ WellFormed(LastValue, 3)
    /\ last.out.ok
    /\ Len(last.out.val.items) = 2
    /\ Len(last.out.val.items[1].items[1].items) = 2
    /\ Len(last.out.val.items[2].items[1].items) = 0
    /\ last.out.val.items[2].items[2].items[3] = PyInt(6)

(***************************************************************************)
(* C7: in a chain of attribute and item steps only, when step k fails its  *)
(* lookup the invocation raises one DDException: its path is "dd" and the  *)
(* segments of steps 1..k in order, its message names the key of step k,   *)
(* its value is the value step k was applied to.  Nothing else but a       *)
(* failing converter makes such a chain raise.                             *)
(***************************************************************************)
Segment(op) == IF op.op = "attr" THEN op.attr ELSE "[" \o KeyRepr(op.key) \o "]"

\* Steps 1..j read straight off the data.
RECURSIVE Walked(_, _, _)
Walked(value, ops, j) ==
    IF j = 0 THEN Found(value)
    ELSE LET w == Walked(value, ops, j - 1)
         IN  IF w.exc = "none" THEN Subscript(w.val, KeyOf(ops[j])) ELSE w

\* Step k is reached with every earlier lookup found, and its own lookup
\* fails without null-safety turning the failure into None.
FailsAt(k) ==
    /\ Walked(LastValue, LastOps, k - 1).exc = "none"
    /\ Walked(LastValue, LastOps, k).exc # "none"
    /\ ~(navs[last.nav].null_safe /\
           \E j \in 0..(k - 1) : Walked(LastValue, LastOps, j).val = None)
    /\ ~(LastOps[k].null_safe /\
           Walked(LastValue, LastOps, k).exc \in {"KeyError", "IndexError"})

C7_ErrorPathAndValue ==
    (Invoked /\ LookupsUpTo(LastOps, Len(LastOps))) =>
        /\ \A k \in 1..Len(LastOps) :
              FailsAt(k) =>
                  /\ ~last.out.ok
                  /\ last.out.path = <<"dd">> \o [j \in 1..k |-> Segment(LastOps[j])]
                  /\ last.out.msg.text \in {"Failed to get attribute",
                                            "Failed to get item with key"}
                  /\ last.out.msg.name = KeyStr(KeyOf(LastOps[k]))
                  /\ last.out.val = Walked(LastValue, LastOps, k - 1).val
        /\ (~last.out.ok /\ last.out.msg.text # "Conversion error") =>
              \E k \in 1..Len(LastOps) : FailsAt(k)

C7_Witness ==
    /\ Invoked /\ LookupsUpTo(LastOps, Len(LastOps))
    /\ \E k \in 2..Len(LastOps) : FailsAt(k) /\ LastOps[k].op = "attr"
    /\ LastOps[1].op = "item"
    /\ ~last.out.ok
    /\ Len(last.out.path) >= 3
    /\ last.out.val # LastValue

(***************************************************************************)
(* C8: with a converter the invocation returns convert(r), r being what    *)
(* the invocation returns without a converter, also when the chain         *)
(* stopped early on None; a failing converter raises the conversion        *)
(* DDException with value r, null_safe or not.                             *)
(***************************************************************************)
Unconverted == Invoke(LastValue, LastOps, navs[last.nav].null_safe, NoConvert)

C8_ConverterApplied ==
    (Invoked /\ last.convert # NoConvert) =>
        /\ ~Unconverted.ok => last.out = Unconverted
        /\ (Unconverted.ok /\ ~Convert(last.convert, Unconverted.val).raised) =>
              /\ last.out.ok
              /\ last.out.val = Convert(last.convert, Unconverted.val).val
        /\ (Unconverted.ok /\ Convert(last.convert, Unconverted.val).raised) =>
              /\ ~last.out.ok
              /\ last.out.msg.text = "Conversion error"
              /\ last.out.val = Unconverted.val
              /\ last.out.path = Unconverted.path

\* The chain stopped early on None under null_safe and the converter failed on it.
C8_Witness ==
    /\ Invoked /\ last.convert = "len"
    /\ navs[last.nav].null_safe
    /\ \E j \in 1..(Len(LastOps) - 1) : ReachedNone(j)
    /\ Unconverted.ok /\ Unconverted.val = None
    /\ ~last.out.ok
    /\ last.out.msg.text = "Conversion error"
    /\ last.out.val = None

(***************************************************************************)
(* C9: no step changes the subject, the operation chain, the null_safe     *)
(* flag or the expansion levels of a dd object that exists, and an         *)
(* accessor adds exactly one new dd object.                                *)
(***************************************************************************)
View(n) ==
    [value |-> navs[n].value, operations |-> opLists[navs[n].operations],
     null_safe |-> navs[n].null_safe,
     expansion_levels |-> lvlLists[navs[n].expansion_levels]]

ViewAfter(n) ==
    [value |-> navs'[n].value, operations |-> opLists'[navs'[n].operations],
     null_safe |-> navs'[n].null_safe,
     expansion_levels |-> lvlLists'[navs'[n].expansion_levels]]

C9_Frame ==
    /\ \A n \in 1..Len(navs) : ViewAfter(n) = View(n)
    /\ Len(navs') \in {Len(navs), Len(navs) + 1}
    /\ last' = last => Len(navs') = Len(navs) + 1

C9_NavigatorsImmutable == [][C9_Frame]_vars

\* A dd object made by the marker shares the chain list of its parent, and
\* has been extended.
C9_Witness ==
    \E m \in 1..Len(navs), c \in 1..Len(navs) :
        /\ origin[m].by = "marker"
        /\ navs[m].operations = navs[origin[m].from].operations
        /\ origin[c].from = m
        /\ origin[c].by \in {"attr", "item", "expand"}
        /\ Len(Operations(c)) = Len(Operations(origin[m].from)) + 1

(***************************************************************************)
(* C10: an invocation changes no dd object and no list; what invoking a    *)
(* dd object yields (the result, or the error with its path and value) is  *)
(* the same before and after any step, an invocation or an extension of    *)
(* any dd object, and it is what every invocation of it records.           *)
(***************************************************************************)
Outcome(n, convert) ==
    Invoke(navs[n].value, opLists[navs[n].operations], navs[n].null_safe, convert)

OutcomeAfter(n, convert) ==
    Invoke(navs'[n].value, opLists'[navs'[n].operations], navs'[n].null_safe, convert)

C10_Replay ==
    /\ last' # last => (navs' = navs /\ opLists' = opLists /\ lvlLists' = lvlLists)
    /\ \/ navs' = navs /\ opLists' = opLists
       \/ \A n \in 1..Len(navs), c \in TreeConverters \cup {NoConvert} :
             OutcomeAfter(n, c) = Outcome(n, c)
    /\ last'.nav # 0 => last'.out = OutcomeAfter(last'.nav, last'.convert)
    /\ (last.nav # 0 /\ last'.nav = last.nav /\ last'.convert = last.convert) =>
          last'.out = last.out

C10_InvokeDeterministic == [][C10_Replay]_vars

\* The invoked dd object raised, and it has been extended and shares its
\* chain list with a marker-made dd object.
C10_Witness ==
    /\ Invoked /\ ~last.out.ok
    /\ \E m \in 1..Len(navs), c \in 1..Len(navs) :
          /\ origin[m].by = "marker" /\ origin[m].from = last.nav
          /\ navs[m].operations = navs[last.nav].operations
          /\ origin[c].from = m /\ origin[c].by # "marker"

(***************************************************************************)
(* C11: a dd object with no operation, invoked without converter, returns  *)
(* its subject value as it is, None included, with or without the marker.  *)
(***************************************************************************)
C11_EmptyChainReturnsSubject ==
    (Invoked /\ LastOps = <<>> /\ last.convert = NoConvert) =>
        (last.out.ok /\ last.out.val = LastValue)

C11_Witness ==
    /\ Invoked /\ LastOps = <<>> /\ last.convert = NoConvert
    /\ ~NoMarker(last.nav)
    /\ LastValue # None
    /\ last.out.ok /\ last.out.val = LastValue

(***************************************************************************)
(* C12: every accessor call on every dd object can be taken and returns a  *)
(* new dd object, also when the chain it builds fails once invoked; the    *)
(* dd objects all hold the subject as given, their chains hold one         *)
(* operation per accessor call, and an error exists only as the outcome    *)
(* of an invocation.                                                       *)
(***************************************************************************)
\* The accessor calls, the marker excepted, that built n.
Appended(n) ==
    Len(SelectSeq(Lineage(n), LAMBDA i : origin[i].by \in {"attr", "item", "expand"}))

C12_BuildingIsLazyAndTotal ==
    /\ \A n \in 1..Len(navs) :
          /\ navs[n].value = navs[1].value
          /\ Len(Operations(n)) = Appended(n)
          /\ Len(navs) < MaxNavs =>
                /\ \A a \in TreeAttrs \cup {Marker} : ENABLED GetAttr(n, a)
                /\ \A k \in TreeKeys : ENABLED GetItem(n, k)
                /\ ENABLED GetExpand(n)
    /\ ~last.out.ok => Invoked

\* A chain was built in full although its invocation raises.
C12_Witness ==
    /\ Invoked /\ ~last.out.ok /\ last.convert = NoConvert
    /\ Len(LastOps) >= 2
    /\ ~Reached(LastValue, LastOps, 1).ok

(***************************************************************************)
(* C13: in c[...].c[...].v with the marker applied before the inner "c"    *)
(* lookup, over n outer elements, the invocation returns n lists: the      *)
(* empty list where the element's inner collection is None (or missing,    *)
(* or the element itself None), and elsewhere the list of the "v" lookups  *)
(* over the inner collection, one per inner element in order.              *)
(***************************************************************************)
Unmarked(args) == SelectSeq(args, LAMBDA a : a # Marker)

\* Null-safe lookup read straight off the data.
SafeGet(d, name) ==
    IF d = None \/ Get(d, name).exc # "none" THEN None ELSE Get(d, name).val

IsRecord(d) == d = None \/ d.t = "dict"

Outer(value) == Get(value, "c").val.items

\* A dict whose "c" is a list of records, each with no "c", a None "c", or
\* a "c" that is a list of records.
Sparse(value) ==
    /\ value.t = "dict"
    /\ Get(value, "c").exc = "none"
    /\ Get(value, "c").val.t = "list"
    /\ \A i \in 1..Len(Outer(value)) :
          /\ IsRecord(Outer(value)[i])
          /\ \/ SafeGet(Outer(value)[i], "c") = None
             \/ /\ SafeGet(Outer(value)[i], "c").t = "list"
                /\ \A j \in 1..Len(SafeGet(Outer(value)[i], "c").items) :
                      IsRecord(SafeGet(Outer(value)[i], "c").items[j])

InnerMarked ==
    /\ Unmarked(ChainArgs(last.nav)) = NestedChain(2)
    /\ Base(LastOps[3]).null_safe

PerOuter(d) ==
    IF SafeGet(d, "c") = None THEN PyList(<<>>)
    ELSE PyList([j \in 1..Len(SafeGet(d, "c").items) |->
                   SafeGet(SafeGet(d, "c").items[j], "v")])

C13_NullInnerGivesEmptyList ==
    (Invoked /\ last.convert = NoConvert /\ InnerMarked /\ Sparse(LastValue)) =>
        /\ last.out.ok
        /\ last.out.val = PyList([i \in 1..Len(Outer(LastValue)) |->
                                   PerOuter(Outer(LastValue)[i])])

C13_Witness ==
    /\ Invoked /\ last.convert = NoConvert /\ InnerMarked /\ Sparse(LastValue)
    /\ ChainArgs(last.nav) = <<"c", "...", Marker, "c", "...", "v">>
    /\ last.out.ok
    /\ last.out.val = PyList(<<PyList(<<>>), PyList(<<PyInt(30), PyInt(15)>>)>>)

(***************************************************************************)
(* C14: with the marker applied right after an expand step and a lookup    *)
(* after it, over n elements each of which is None, holds the key or       *)
(* lacks it (missing key, index out of range), the invocation returns a    *)
(* list of length n: None where the element is None or lacks the key, the  *)
(* value found elsewhere.                                                  *)
(***************************************************************************)
\* The chain is lookups, expand, marker, lookup, with no marker before.
MarkedAfterExpand(n) ==
    /\ origin[n].by \in {"attr", "item"}
    /\ origin[origin[n].from].by = "marker"
    /\ origin[origin[origin[n].from].from].by = "expand"
    /\ ~navs[origin[origin[n].from].from].null_safe

\* The expand step is applied, and to a collection.
Spread(value, ops) ==
    /\ ExpandThenLookup(ops)
    /\ BroadcastOver(value, ops).ok
    /\ BroadcastOver(value, ops).val # None
    /\ Reached(value, ops, Len(ops) - 1).ok

Items(value, ops) == Reached(value, ops, Len(ops) - 1).val.items

Looked(value, ops, i) == Subscript(Items(value, ops)[i], KeyOf(ops[Len(ops)].operation))

Lacks(value, ops, i) ==
    \/ Items(value, ops)[i] = None
    \/ Looked(value, ops, i).exc \in {"KeyError", "IndexError"}

Holds(value, ops, i) == Items(value, ops)[i] # None /\ Looked(value, ops, i).exc = "none"

C14_MarkedBroadcastGivesNone ==
    (Invoked /\ last.convert = NoConvert
             /\ MarkedAfterExpand(last.nav)
             /\ Spread(LastValue, LastOps)
             /\ \A i \in 1..Len(Items(LastValue, LastOps)) :
                   Lacks(LastValue, LastOps, i) \/ Holds(LastValue, LastOps, i)) =>
        /\ last.out.ok
        /\ last.out.val.t = "list"
        /\ Len(last.out.val.items) = Len(Items(LastValue, LastOps))
        /\ \A i \in 1..Len(Items(LastValue, LastOps)) :
              /\ Lacks(LastValue, LastOps, i) => last.out.val.items[i] = None
              /\ Holds(LastValue, LastOps, i) =>
                    last.out.val.items[i] = Looked(LastValue, LastOps, i).val

C14_Witness ==
    /\ Invoked /\ last.convert = NoConvert
    /\ MarkedAfterExpand(last.nav)
    /\ Spread(LastValue, LastOps)
    /\ Len(Items(LastValue, LastOps)) = 2
    /\ Holds(LastValue, LastOps, 1)
    /\ Looked(LastValue, LastOps, 2).exc = "KeyError"
    /\ last.out.ok
    /\ last.out.val = PyList(<<PyInt(1), None>>)

(***************************************************************************)
(* C15.  A doubly broadcast lookup hands each element of the current list  *)
(* to the inner Map; the elements that are not lists are the non-sequence  *)
(* values Map is applied to.                                               *)
(***************************************************************************)
\* The last step is Map(Map(lookup)) and the steps before it leave a list.
DoubleBroadcast(value, ops) ==
    /\ Len(ops) >= 1
    /\ ops[Len(ops)].op = "map"
    /\ ops[Len(ops)].operation.op = "map"
    /\ IsLookup(ops[Len(ops)].operation.operation)
    /\ Reached(value, ops, Len(ops) - 1).ok
    /\ Reached(value, ops, Len(ops) - 1).val.t = "list"

InnerMap(ops) == ops[Len(ops)].operation

\* Map applied to element i, and its inner operation applied to element i.
Mapped(value, ops, i) == MapApply(InnerMap(ops), Items(value, ops)[i], <<"dd">>)
Once(value, ops, i) == Apply(InnerMap(ops).operation, Items(value, ops)[i], <<"dd">>)

\* One application, wrapped: the same failure, or the one-element list of
\* the result with the one path segment of the application.
WrappedOnce(value, ops, i) ==
    IF Once(value, ops, i).ok
    THEN Mapped(value, ops, i) =
            Return(PyList(<<Once(value, ops, i).val>>), Once(value, ops, i).path)
    ELSE Mapped(value, ops, i) = Once(value, ops, i)

(* C15 as stated: Map applied to a value that is not a list, None          *)
(* included, applies its inner operation once to it and returns the        *)
(* one-element list of the result.                                         *)
C15_MapOverNonSequenceOnce ==
    (Invoked /\ DoubleBroadcast(LastValue, LastOps)) =>
        \A i \in 1..Len(Items(LastValue, LastOps)) :
            Items(LastValue, LastOps)[i].t # "list" => WrappedOnce(LastValue, LastOps, i)

(* C15 amended: Map applied to a scalar or a mapping applies its inner     *)
(* operation once to it and returns the one-element list of the result     *)
(* (or fails as that application fails); applied to None it applies        *)
(* nothing and returns the empty list.  The invocation, when it returns,   *)
(* holds that list at the element's position.                              *)
C15_MapOverScalarOrMapping ==
    (Invoked /\ DoubleBroadcast(LastValue, LastOps)) =>
        \A i \in 1..Len(Items(LastValue, LastOps)) :
            /\ Items(LastValue, LastOps)[i].t \notin {"list", "none"} =>
                  WrappedOnce(LastValue, LastOps, i)
            /\ Items(LastValue, LastOps)[i] = None =>
                  Mapped(LastValue, LastOps, i) = Return(PyList(<<>>), <<"dd">>)
            /\ (Items(LastValue, LastOps)[i].t # "list"
                   /\ last.out.ok /\ last.convert = NoConvert) =>
                  last.out.val.items[i] = Mapped(LastValue, LastOps, i).val

C15_Witness ==
    /\ Invoked /\ last.convert = NoConvert
    /\ DoubleBroadcast(LastValue, LastOps)
    /\ Len(Items(LastValue, LastOps)) = 2
    /\ Items(LastValue, LastOps)[1].t = "dict"
    /\ Items(LastValue, LastOps)[2] = None
    /\ last.out.ok
    /\ last.out.val = PyList(<<PyList(<<PyInt(1)>>), PyList(<<>>)>>)

(***************************************************************************)
(* C16: with the marker applied before every lookup, a top-level step      *)
(* applied to a value that is not None still makes the invocation raise    *)
(* when the value cannot be subscripted with the key at all (a scalar, a   *)
(* sequence with a str key) or, for expand, is a scalar or a str; the      *)
(* DDException carries that value.  A chain of top-level steps raises for  *)
(* no other reason: None, a missing key and an out-of-range index give     *)
(* None.                                                                   *)
(***************************************************************************)
AllSafe(n) ==
    /\ navs[n].null_safe
    /\ \A j \in 1..Len(Operations(n)) :
          IsLookup(Base(Operations(n)[j])) => Base(Operations(n)[j]).null_safe

Faulty(k) ==
    LET r == Reached(LastValue, LastOps, k - 1)
    IN  /\ r.ok
        /\ r.val # None
        /\ \/ IsLookup(LastOps[k]) /\ Subscript(r.val, KeyOf(LastOps[k])).exc = "TypeError"
           \/ LastOps[k].op = "expand" /\ r.val.t \in {"int", "str"}

TopLevelOnly(ops) == \A j \in 1..Len(ops) : ops[j].op # "map"

C16_FaultRaisesUnderNullSafe ==
    (Invoked /\ AllSafe(last.nav)) =>
        /\ \A k \in 1..Len(LastOps) :
              Faulty(k) =>
                  /\ ~last.out.ok
                  /\ last.out.val = Reached(LastValue, LastOps, k - 1).val
                  /\ last.out.msg.text \in {"Failed to get attribute",
                                            "Failed to get item with key",
                                            "Cannot expand non-iterable"}
        /\ (TopLevelOnly(LastOps) /\ last.convert = NoConvert /\ ~last.out.ok) =>
              \E k \in 1..Len(LastOps) : Faulty(k)

C16_Witness ==
    /\ Invoked /\ AllSafe(last.nav)
    /\ \E k \in 2..Len(LastOps) :
          /\ Faulty(k)
          /\ IsLookup(LastOps[k])
          /\ Reached(LastValue, LastOps, k - 1).val.t = "int"
    /\ ~last.out.ok
    /\ last.out.msg.cause = "TypeError"

(***************************************************************************)
(* C17: an expand step applied to None returns the empty list, to a dict   *)
(* its values in insertion order, to a list its elements in order; to an   *)
(* int or a str it raises "Cannot expand non-iterable" with that value     *)
(* and a path ending in "[...]".                                           *)
(***************************************************************************)
\* The chain ends in an expand step, and the loop gets to it.
EndsInExpand ==
    /\ Len(LastOps) >= 1
    /\ LastOps[Len(LastOps)].op = "expand"
    /\ Reached(LastValue, LastOps, Len(LastOps) - 1).ok
    /\ ~(navs[last.nav].null_safe /\
           \E j \in 0..(Len(LastOps) - 1) : Reached(LastValue, LastOps, j).val = None)

Expandee == Reached(LastValue, LastOps, Len(LastOps) - 1).val

C17_ExpandByKind ==
    (Invoked /\ EndsInExpand) =>
        /\ (Expandee = None /\ last.convert = NoConvert) =>
              (last.out.ok /\ last.out.val = PyList(<<>>))
        /\ (Expandee.t = "dict" /\ last.convert = NoConvert) =>
              /\ last.out.ok
              /\ last.out.val.t = "list"
              /\ Len(last.out.val.items) = Len(Expandee.keys)
              /\ \A i \in 1..Len(Expandee.keys) :
                    last.out.val.items[i] = Get(Expandee, Expandee.keys[i]).val
        /\ (Expandee.t = "list" /\ last.convert = NoConvert) =>
              (last.out.ok /\ last.out.val = Expandee)
        /\ Expandee.t \in {"int", "str"} =>
              /\ ~last.out.ok
              /\ last.out.msg.text = "Cannot expand non-iterable"
              /\ last.out.val = Expandee
              /\ last.out.path[Len(last.out.path)] = "[...]"
              /\ Len(last.out.path) = Len(LastOps) + 1

C17_Witness ==
    /\ Invoked /\ EndsInExpand /\ last.convert = NoConvert
    /\ Expandee.t = "dict"
    /\ Expandee.keys = <<"b", "a">>
    /\ last.out.ok
    /\ last.out.val.items[1] = PyInt(2)

(***************************************************************************)
(* C18: in every dd object, the expansion levels are as many as the        *)
(* expand operations of its chain; an expand operation is in the chain     *)
(* unwrapped; an attribute or item operation is inside exactly as many     *)
(* nested Map operations as expand operations precede it; an attribute or  *)
(* item accessor (and the marker) hands the levels on unchanged, the       *)
(* expand accessor adds one.                                               *)
(***************************************************************************)
RECURSIVE Depth(_)
Depth(op) == IF op.op = "map" THEN 1 + Depth(op.operation) ELSE 0

ExpandsBefore(ops, j) == Cardinality({i \in 1..(j - 1) : ops[i].op = "expand"})

C18_ChainAssembly ==
    \A n \in 1..Len(navs) :
        /\ Len(ExpansionLevels(n)) = ExpandsBefore(Operations(n), Len(Operations(n)) + 1)
        /\ \A j \in 1..Len(Operations(n)) :
              /\ Base(Operations(n)[j]).op = "expand" => Operations(n)[j] = ExpandOp
              /\ IsLookup(Base(Operations(n)[j])) =>
                    Depth(Operations(n)[j]) = ExpandsBefore(Operations(n), j)
        /\ origin[n].by \in {"attr", "item", "marker"} =>
              ExpansionLevels(n) = ExpansionLevels(origin[n].from)
        /\ origin[n].by = "expand" =>
              ExpansionLevels(n) = Append(ExpansionLevels(origin[n].from), 1)

C18_Witness ==
    \E n \in 1..Len(navs) :
        /\ Len(Operations(n)) = 4
        /\ Operations(n)[1] = ExpandOp
        /\ Operations(n)[2].op = "map" /\ Depth(Operations(n)[2]) = 1
        /\ Operations(n)[3] = ExpandOp
        /\ IsLookup(Base(Operations(n)[4])) /\ Depth(Operations(n)[4]) = 2
        /\ Len(ExpansionLevels(n)) = 2

(***************************************************************************)
(* C19: over data with cycles too, an invocation ends either returning or  *)
(* raising.  The top-level path shows each operation applied at most once  *)
(* and in chain order; what an operation returns lies one member away      *)
(* from what it was applied to (element by element for a Map); and         *)
(* _DDMapOperation.apply is never nested deeper than the chain has expand  *)
(* steps.                                                                  *)
(***************************************************************************)
StepSegment(op) == IF op.op = "expand" THEN "[...]" ELSE Segment(op)

\* "dd" and the segments of the first m operations, a Map adding none.
RECURSIVE TopPath(_, _)
TopPath(ops, m) ==
    IF m = 0 THEN <<"dd">>
    ELSE IF ops[m].op = "map" THEN TopPath(ops, m - 1)
    ELSE Append(TopPath(ops, m - 1), StepSegment(ops[m]))

IsPrefix(p, q) == Len(p) <= Len(q) /\ SubSeq(q, 1, Len(p)) = p

\* The members of a value.
Children(v) ==
    CASE v.t = "dict" -> {Resolve(v.vals[i]) : i \in 1..Len(v.vals)}
      [] v.t = "list" -> {Resolve(v.items[i]) : i \in 1..Len(v.items)}
      [] v.t = "str" -> {PyStr(<<v.chars[i]>>) : i \in 1..Len(v.chars)}
      [] OTHER -> {}

\* out is what op may return on in, going one member into in.
RECURSIVE OneHop(_, _, _)
OneHop(op, in, out) ==
    CASE op.op = "expand" ->
            /\ out.t = "list"
            /\ \A i \in 1..Len(out.items) : Resolve(out.items[i]) \in Children(in)
      [] op.op = "map" ->
            /\ out.t = "list"
            /\ IF in = None THEN out.items = <<>>
               ELSE IF in.t # "list"
               THEN Len(out.items) = 1 /\ OneHop(op.operation, in, out.items[1])
               ELSE /\ Len(out.items) = Len(in.items)
                    /\ \A i \in 1..Len(in.items) :
                          OneHop(op.operation, Resolve(in.items[i]), out.items[i])
      [] OTHER -> out = None \/ out \in Children(in)

Expands(ops) == ExpandsBefore(ops, Len(ops) + 1)

C19_InvokeBounded ==
    Invoked =>
        /\ last.out.ok <=> last.out.msg = NoMsg
        /\ \E m \in 0..Len(LastOps) :
              /\ IsPrefix(TopPath(LastOps, m), last.out.path)
              /\ last.out.ok => last.out.path = TopPath(LastOps, m)
              /\ ~last.out.ok => Len(last.out.path) <= Len(TopPath(LastOps, m)) + Expands(LastOps) + 1
              /\ (last.out.ok /\ ~navs[last.nav].null_safe) => m = Len(LastOps)
        /\ \A j \in 1..Len(LastOps) :
              Reached(LastValue, LastOps, j - 1).ok =>
                  /\ MapNesting(LastOps[j], Reached(LastValue, LastOps, j - 1).val)
                        <= Expands(LastOps)
                  /\ Reached(LastValue, LastOps, j).ok =>
                        OneHop(LastOps[j], Reached(LastValue, LastOps, j - 1).val,
                               Reached(LastValue, LastOps, j).val)

\* children, each child's parent, its value: the chain goes round the cycle.
C19_Witness ==
    /\ Invoked /\ last.convert = NoConvert
    /\ ChainArgs(last.nav) = <<"c", "...", "p", "v">>
    /\ MapNesting(LastOps[3], Reached(LastValue, LastOps, 2).val) = 1
    /\ last.out.ok
    /\ last.out.val = PyList(<<PyInt(0), PyInt(0)>>)

(***************************************************************************)
(* C20: a chain ending in two expand steps gives what the chain with one   *)
(* of them gives: the second expand is applied to the whole list the       *)
(* first returned and returns its elements unchanged.  Over a dict the     *)
(* result holds the dict's values themselves, a value that is a dict       *)
(* staying a dict.                                                         *)
(***************************************************************************)
EndsInTwoExpands ==
    /\ Len(LastOps) >= 2
    /\ origin[last.nav].by = "expand"
    /\ origin[origin[last.nav].from].by = "expand"

\* The chain without its last expand step, invoked on the same dd fields.
OneExpandLess ==
    Invoke(LastValue, SubSeq(LastOps, 1, Len(LastOps) - 1),
           navs[last.nav].null_safe, NoConvert)

FirstExpandee == Reached(LastValue, LastOps, Len(LastOps) - 2)

C20_ExpandIdempotent ==
    (Invoked /\ last.convert = NoConvert /\ EndsInTwoExpands) =>
        /\ LastOps[Len(LastOps)] = ExpandOp
        /\ LastOps[Len(LastOps) - 1] = ExpandOp
        /\ last.out.ok = OneExpandLess.ok
        /\ last.out.val = OneExpandLess.val
        /\ (last.out.ok /\ last.out.val # None /\ FirstExpandee.val.t = "dict") =>
              last.out.val = PyList(FirstExpandee.val.vals)

C20_Witness ==
    /\ Invoked /\ last.convert = NoConvert /\ EndsInTwoExpands
    /\ FirstExpandee.ok /\ FirstExpandee.val.t = "dict"
    /\ last.out.ok
    /\ last.out.val.t = "list"
    /\ last.out.val.items[1].t = "dict"
    /\ last.out.val = OneExpandLess.val

(***************************************************************************)
(* C21: the loop of the invocation tests the null_safe flag of the dd      *)
(* object invoked, each lookup the flag it was built with.  When the       *)
(* marker is applied after a top-level lookup, a None that lookup finds    *)
(* still ends the invocation with None, steps remaining or not; a missing  *)
(* key or an out-of-range index at that lookup still raises.               *)
(***************************************************************************)
\* Step k is a top-level lookup recorded before any marker, the dd object
\* invoked has the flag, and the loop gets to step k on a value not None.
LateMarker(k) ==
    /\ navs[last.nav].null_safe
    /\ IsLookup(LastOps[k])
    /\ ~MarkerBefore(last.nav, k)
    /\ Reached(LastValue, LastOps, k - 1).ok
    /\ \A j \in 0..(k - 1) : Reached(LastValue, LastOps, j).val # None

StepLooks(k) == Subscript(Reached(LastValue, LastOps, k - 1).val, KeyOf(LastOps[k]))

C21_FinalFlagVersusCapturedFlag ==
    Invoked =>
        \A k \in 1..Len(LastOps) :
            LateMarker(k) =>
                /\ (StepLooks(k) = Found(None) /\ last.convert = NoConvert) =>
                      (last.out.ok /\ last.out.val = None)
                /\ StepLooks(k).exc \in {"KeyError", "IndexError"} =>
                      /\ ~last.out.ok
                      /\ last.out.msg.text = "Failed to get attribute"
                      /\ last.out.msg.cause = StepLooks(k).exc
                      /\ last.out.val = Reached(LastValue, LastOps, k - 1).val

\* x.a.b._ : "b" is missing, the marker comes last, the invocation raises.
C21_Witness ==
    /\ Invoked /\ last.convert = NoConvert
    /\ origin[last.nav].by = "marker"
    /\ Len(LastOps) = 2
    /\ LateMarker(2)
    /\ StepLooks(2).exc = "KeyError"
    /\ ~last.out.ok

(***************************************************************************)
(* C22: in every dd object every expansion level is 1 and every Map        *)
(* operation, at any wrapping depth, has expansion_level 1; no invocation  *)
(* enters the branch of _DDMapOperation.apply that needs                   *)
(* expansion_level > 1.                                                    *)
(***************************************************************************)
RECURSIVE AllLevelOne(_)
AllLevelOne(op) ==
    op.op = "map" => (op.expansion_level = 1 /\ AllLevelOne(op.operation))

C22_LevelsAreOne ==
    /\ \A n \in 1..Len(navs) :
          /\ \A i \in 1..Len(ExpansionLevels(n)) : ExpansionLevels(n)[i] = 1
          /\ \A j \in 1..Len(Operations(n)) : AllLevelOne(Operations(n)[j])
    /\ Invoked =>
          \A j \in 1..Len(LastOps) :
              Reached(LastValue, LastOps, j - 1).ok =>
                  ~TakesLevelBranch(LastOps[j], Reached(LastValue, LastOps, j - 1).val)

\* A doubly wrapped lookup meets a list of lists: all that the branch needs
\* but the level.
C22_Witness ==
    /\ Invoked /\ last.convert = NoConvert
    /\ ChainArgs(last.nav) = NestedChain(2)
    /\ Depth(LastOps[Len(LastOps)]) = 2
    /\ Reached(LastValue, LastOps, Len(LastOps) - 1).ok
    /\ \E i \in 1..Len(Reached(LastValue, LastOps, Len(LastOps) - 1).val.items) :
          Reached(LastValue, LastOps, Len(LastOps) - 1).val.items[i].t = "list"
    /\ last.out.ok

(***************************************************************************)
(* C23: the path the invocation holds when its loop ends is "dd" and one   *)
(* segment for each attribute, item and expand step applied at top level,  *)
(* none for a step applied through Map.  A failing converter reports that  *)
(* path: after an expand and a broadcast lookup over a list, the path      *)
(* ends with "[...]", without the lookup's segment.                        *)
(***************************************************************************)
\* The number of steps the loop applies when none of them raises.
Applied ==
    IF navs[last.nav].null_safe
       /\ \E j \in 0..(Len(LastOps) - 1) : Reached(LastValue, LastOps, j).val = None
    THEN CHOOSE j \in 0..(Len(LastOps) - 1) :
             /\ Reached(LastValue, LastOps, j).val = None
             /\ \A i \in 0..(j - 1) : Reached(LastValue, LastOps, i).val # None
    ELSE Len(LastOps)

TopLevelSteps(ops, m) == Cardinality({j \in 1..m : ops[j].op # "map"})

C23_BroadcastAddsNoSegment ==
    (Invoked /\ Unconverted.ok) =>
        /\ last.out.path = TopPath(LastOps, Applied)
        /\ Len(last.out.path) = 1 + TopLevelSteps(LastOps, Applied)
        /\ last.convert # NoConvert =>
              \/ last.out.ok
              \/ /\ last.out.msg.text = "Conversion error"
                 /\ last.out.val = Unconverted.val

C23_Witness ==
    /\ Invoked /\ last.convert = "div0"
    /\ Unconverted.ok
    /\ Len(LastOps) >= 2
    /\ LastOps[Len(LastOps)].op = "map"
    /\ LastOps[Len(LastOps) - 1].op = "expand"
    /\ Len(Unconverted.val.items) = 2
    /\ last.out.msg.text = "Conversion error"
    /\ last.out.path[Len(last.out.path)] = "[...]"
    /\ Len(last.out.path) = Len(LastOps)

====
